---------------------------- MODULE Spec2Model ----------------------------
(***************************************************************************)
(* Verification model of the EAG-V2 agent:                                 *)
(*   - Week-10 control loop (agent/agent_loop2.py) and step-proposal       *)
(*     validator (decision/decision.py);                                   *)
(*   - Week-9 sandboxed executor (modules/action.py,                       *)
(*     modules/heuristics_code.py);                                        *)
(*   - Week-9 historical store and digest (modules/historical_index.py).   *)
(***************************************************************************)
EXTENDS Integers, Sequences, FiniteSets, TLC

VARIABLES
    \* ---- control loop (AgentLoop.run / resume_with_guidance) ----
    pc,                    \* "idle" | "loop" | "executing" | "returned" | "raised"
    phase,                 \* "none" | "run" | "resume": which loop is driving
    exit,                  \* which return/break ended the last call
    plan_versions,         \* session.plan_versions
    step,                  \* the loop's `step`: 0 is None, else the plan version holding it
    total_steps_executed,  \* session.total_steps_executed
    session_memory,        \* the loop-local failure memory
    complete,              \* session.state["original_goal_achieved"]
    final_answer,          \* session.state["final_answer"]: where the answer was taken from
    resumes,               \* number of resume_with_guidance calls so far
    driver,                \* "interactive" (main.py) | "api" | "run": who calls the loop
    \* ---- one call of Decision.run ----
    d_pc,                  \* "off" | "called" | "returned" | "raised"
    d_resp,                \* the oracle's response to the call
    d_result,              \* what Decision.run returned
    \* ---- one call of run_python_sandbox ----
    sb_pc,                 \* "off" | "called" | "solving" | "returned" | "raised" | "hung"
    sb_code,               \* the code handed to the sandbox
    sb_result,             \* what the call returned
    compiled,              \* exec(compile(code)) was reached
    call_count,            \* SandboxMCP.call_count
    forwarded,             \* calls that reached dispatcher.call_tool
    calls_made,            \* tool calls the solve routine attempted so far
    \* ---- the historical store ----
    store_file,            \* historical_conversation_store.json
    h_pc,                  \* get_historical_context: "off" | "called" | "returned" | "raised"
    h_query,               \* its user_input
    h_digest,              \* what it returned
    a_pc,                  \* append_to_historical_store, per session:
                           \* "off" | "called" | "loaded" | "opened" | "done" | "raised"
    memory_items,          \* per session: the list it loaded and appended to
    prior                  \* the store file before the sessions appended

decisionVars == <<d_pc, d_resp, d_result>>

loopVars == <<pc, phase, exit, plan_versions, step, total_steps_executed,
              session_memory, complete, final_answer, resumes, driver>>

\* the variables the control loop leaves alone
sandboxVars == <<sb_pc, sb_code, sb_result, compiled, call_count, forwarded, calls_made>>

digestVars == <<h_pc, h_query, h_digest>>

appendVars == <<a_pc, memory_items, prior>>

storeVars == <<store_file, digestVars, appendVars>>

otherThanLoop == <<decisionVars, sandboxVars, storeVars>>

otherThanDecision == <<loopVars, sandboxVars, storeVars>>

otherThanSandbox == <<loopVars, decisionVars, storeVars>>

otherThanStore == <<loopVars, decisionVars, sandboxVars>>

(***************************************************************************)
(* Program constants.                                                      *)
(***************************************************************************)
GLOBAL_PREVIOUS_FAILURE_STEPS == 3
MAX_STEPS == 3
MAX_RETRIES == 3
\* the "+ 3" of the resumed loop's budget test
RESUME_EXTRA_STEPS == 3

(***************************************************************************)
(* Bounds of the model.                                                    *)
(***************************************************************************)
\* how many times a caller of the API resumes one session
MaxResumes == 2

(***************************************************************************)
(* JSON objects are functions from keys to values.                         *)
(***************************************************************************)
EmptyObj == [k \in {} |-> 0]

Without(f, k) == [x \in (DOMAIN f) \ {k} |-> f[x]]

\* dict.get(key, default)
Get(f, k, default) == IF k \in DOMAIN f THEN f[k] ELSE default

RequiredKeys == {"step_index", "description", "type", "code", "conclusion", "plan_text"}

(***************************************************************************)
(* Decision.run: the oracle call and the validation of its text.           *)
(*                                                                         *)
(* An oracle response is described by what the code looks at:              *)
(*   call     "ok" | "ServerError" | "OtherError"  (generate_content)      *)
(*   hasText  whether candidates[0].content.parts[0].text is a string      *)
(*   fence    whether the ```json {...} ``` pattern matches                 *)
(*   valid    whether json.loads accepts the block                         *)
(*   salvage  for an invalid block, what the code regex finds:             *)
(*            "nomatch" | "empty" | "code" | "badescape"                   *)
(*   obj      for a valid block, the parsed object                         *)
(***************************************************************************)
ServerErrorRecord ==
    [step_index |-> 0,
     description |-> "Decision model unavailable: server overload.",
     type |-> "HUMAN_IN_LOOP",
     code |-> "",
     conclusion |-> "",
     plan_text |-> <<"Step 0: Decision model returned a 503. Human intervention required.">>,
     raw_text |-> "error",
     human_in_loop_reason |-> "PLAN_FAILURE",
     human_in_loop_message |-> "LLM server error. Please provide guidance or retry.",
     suggested_plan |-> <<"Step 0: Retry the query", "Step 1: Use alternative approach">>]

PlanFailureRecord ==
    [step_index |-> 0,
     description |-> "Exception while parsing LLM output",
     type |-> "HUMAN_IN_LOOP",
     code |-> "",
     conclusion |-> "",
     plan_text |-> <<"Step 0: Failed to parse decision. Human intervention required.">>,
     raw_text |-> "raw",
     human_in_loop_reason |-> "PLAN_FAILURE",
     human_in_loop_message |-> "Failed to parse decision output. Please provide a valid plan.",
     suggested_plan |-> <<"Step 0: Clarify the query", "Step 1: Retry with simpler approach">>]

\* the record built after json.JSONDecodeError
SalvageRecord(code_value) ==
    [step_index |-> 0,
     description |-> "Recovered partial JSON from LLM.",
     type |-> IF code_value # "" THEN "CODE" ELSE "NOP",
     code |-> code_value,
     conclusion |-> "",
     plan_text |-> <<"Step 0: Partial plan recovered due to JSON decode error.">>,
     raw_text |-> "raw"]

Defaults ==
    [step_index |-> 0,
     description |-> "Missing from LLM response",
     type |-> "NOP",
     code |-> "",
     conclusion |-> "",
     plan_text |-> <<"Step 0: No valid plan returned by LLM.">>]

\* a validator that returns the parsed object as it is
ApplyDefaultsSkipped(output) == output

\* for key, default in defaults.items(): output.setdefault(key, default)
ApplyDefaults(output) == output @@ Defaults

\* output.update(output.pop("next_step")): a mapping or an iterable of pairs
\* updates, anything else raises inside the try block
NextStepUpdates(ns) == ns.shape \in {"dict", "pairs"}

FlattenNextStep(output) == output["next_step"].obj @@ Without(output, "next_step")

Returned(out) == [raised |-> FALSE, out |-> out]
Raised == [raised |-> TRUE, out |-> EmptyObj]

\* lines 93-148: the try block over raw_text
ParseDecision(resp) ==
    IF ~resp.fence
    THEN PlanFailureRecord                       \* ValueError("No JSON block found")
    ELSE IF ~resp.valid /\ resp.salvage = "badescape"
    THEN PlanFailureRecord                       \* unicode_escape decoding raised
    ELSE LET output0 == IF resp.valid THEN resp.obj
                        ELSE SalvageRecord(IF resp.salvage = "code" THEN "salvaged" ELSE "")
         IN  IF "next_step" \in DOMAIN output0
             THEN IF NextStepUpdates(output0["next_step"])
                  THEN ApplyDefaults(FlattenNextStep(output0))
                  ELSE PlanFailureRecord         \* TypeError / ValueError of update
             ELSE ApplyDefaults(output0)

\* Decision.run, lines 57-148
DecisionRun(resp) ==
    IF resp.call = "ServerError" THEN Returned(ServerErrorRecord)
    ELSE IF resp.call = "OtherError" THEN Raised      \* only ServerError is caught
    ELSE IF ~resp.hasText THEN Raised                 \* line 91 is outside the try
    ELSE Returned(ParseDecision(resp))

(***************************************************************************)
(* Oracle responses.                                                       *)
(***************************************************************************)
CallFailure(kind) ==
    [call |-> kind, hasText |-> FALSE, fence |-> FALSE, valid |-> FALSE,
     salvage |-> "nomatch", obj |-> EmptyObj]

TextResponse(fence, valid, salvage, obj) ==
    [call |-> "ok", hasText |-> TRUE, fence |-> fence, valid |-> valid,
     salvage |-> salvage, obj |-> obj]

NoText == [call |-> "ok", hasText |-> FALSE, fence |-> FALSE, valid |-> FALSE,
           salvage |-> "nomatch", obj |-> EmptyObj]

JsonResponse(obj) == TextResponse(TRUE, TRUE, "nomatch", obj)

OneLinePlan == <<"Step 0">>
TwoLinePlan == <<"Step 0", "Step 1">>

CodeProposal(plan) ==
    [step_index |-> 0, description |-> "run the tool", type |-> "CODE",
     code |-> "solve", conclusion |-> "", plan_text |-> plan]

\* the responses the control loop is driven with
LoopResponses ==
    { CallFailure("ServerError"), CallFailure("OtherError"), NoText,
      TextResponse(FALSE, FALSE, "nomatch", EmptyObj),
      JsonResponse(EmptyObj),
      JsonResponse(CodeProposal(OneLinePlan)),
      JsonResponse(CodeProposal(TwoLinePlan)),
      JsonResponse([type |-> "CONCLUDE", conclusion |-> "answer"]),
      JsonResponse([type |-> "HUMAN_IN_LOOP"]),
      JsonResponse([type |-> "SUMMARIZE"]) }

\* the responses of the scenarios that resume a session several times
ApiResponses ==
    { CallFailure("ServerError"),
      JsonResponse(CodeProposal(OneLinePlan)) }

\* the responses of oracle calls that return: a response object comes back,
\* with or without a text in it
ReturningResponses == { r \in LoopResponses : r.call = "ok" }

Responses ==
    IF driver = "interactive" THEN LoopResponses
    ELSE IF driver = "run" THEN ReturningResponses
    ELSE ApiResponses

(***************************************************************************)
(* One call of Decision.run on an oracle response drawn from the shapes a  *)
(* text can have: no fenced block, a fenced block that is not JSON, and    *)
(* JSON objects with any subset of the fields, any kind, and a nested      *)
(* next_step of any shape.                                                 *)
(***************************************************************************)
TypeValues == {"CODE", "CONCLUDE", "NOP", "HUMAN_IN_LOOP", "SUMMARIZE", "null"}

SampleValue(k) ==
    CASE k = "step_index" -> 1
      [] k = "plan_text" -> TwoLinePlan
      [] OTHER -> "text"

ObjectsOver(keys) ==
    { [k \in S |-> IF k = "type" THEN t ELSE SampleValue(k)] :
          S \in SUBSET keys, t \in TypeValues }

\* the value under "next_step": a mapping, an iterable of pairs, a scalar
\* (number, null, boolean) or a sequence whose elements are no pairs
NextStepValues ==
    { [shape |-> "dict", obj |-> o] : o \in ObjectsOver({"type", "code", "step_index"}) }
    \cup { [shape |-> "pairs", obj |-> [type |-> "CODE", code |-> "text"]],
           [shape |-> "pairs", obj |-> EmptyObj],
           [shape |-> "scalar", obj |-> EmptyObj],
           [shape |-> "badseq", obj |-> EmptyObj] }

JsonObjects ==
    ObjectsOver(RequiredKeys)
    \cup { [next_step |-> n] @@ o :
              o \in ObjectsOver({"type", "description", "plan_text"}), n \in NextStepValues }

OracleTexts ==
    { TextResponse(FALSE, FALSE, "nomatch", EmptyObj) }
    \cup { TextResponse(TRUE, FALSE, sv, EmptyObj) : sv \in {"nomatch", "empty", "code", "badescape"} }
    \cup { JsonResponse(o) : o \in JsonObjects }

DecisionInputs ==
    { CallFailure("ServerError"), CallFailure("OtherError"), NoText } \cup OracleTexts

DecisionOff ==
    /\ d_pc = "off"
    /\ d_resp = NoText
    /\ d_result = Raised

DecisionInit ==
    /\ d_pc = "called"
    /\ d_resp \in DecisionInputs
    /\ d_result = Raised

Decide ==
    /\ d_pc = "called"
    /\ d_result' = DecisionRun(d_resp)
    /\ d_pc' = IF d_result'.raised THEN "raised" ELSE "returned"
    /\ UNCHANGED d_resp
    /\ UNCHANGED otherThanDecision

(***************************************************************************)
(* Session state (agent/agentSession.py: Step, AgentSession).              *)
(***************************************************************************)
NoPerception == [evaluated |-> FALSE, local_goal_achieved |-> FALSE,
                 original_goal_achieved |-> FALSE]

Perception(l, o) == [evaluated |-> TRUE, local_goal_achieved |-> l,
                     original_goal_achieved |-> o]

\* Step(...): a new step is pending, with no retries and no result.
\* `attempts` counts the executor calls made for the step (an observation).
NewStep(index, type, reason, message) ==
    [index |-> index, type |-> type, status |-> "pending", retries |-> 0,
     human_in_loop_reason |-> reason, human_in_loop_message |-> message,
     execution_result |-> "None", perception |-> NoPerception, attempts |-> 0]

\* AgentLoop.create_step
create_step(decision_output) ==
    NewStep(decision_output["step_index"], decision_output["type"],
            Get(decision_output, "human_in_loop_reason", "None"),
            Get(decision_output, "human_in_loop_message", "None"))

\* session.add_plan_version(plan_text, steps): appends a plan version and
\* returns its first step
add_plan_version(versions, plan_text, steps) ==
    Append(versions, [plan_text |-> plan_text, steps |-> steps])

\* session.mark_complete(perception, final_answer=...): the answer the caller
\* passes, else the summary of the evaluation snapshot it is given
mark_complete(final) == IF final # "None" THEN final ELSE "solution_summary"

\* the step the loop variable `step` refers to: the first step of its version
StepOf(versions, v) == versions[v].steps[1]

SetStep(versions, v, s) == [versions EXCEPT ![v].steps[1] = s]

LastVersion == plan_versions[Len(plan_versions)]
LastStep == LastVersion.steps[Len(LastVersion.steps)]

\* the HUMAN_IN_LOOP step run() synthesizes when the budget is exhausted
MaxStepsHumanStep(index) ==
    [NewStep(index, "HUMAN_IN_LOOP", "MAX_STEPS_EXCEEDED",
             "Agent has executed MAX_STEPS steps without completing the goal. Please provide guidance.")
        EXCEPT !.status = "awaiting_human"]

\* the step budget the loop tests before each step
\* a resumed loop whose buffer is one step wider
StepBudgetWiderBuffer(ph) ==
    IF ph = "run" THEN MAX_STEPS ELSE MAX_STEPS + RESUME_EXTRA_STEPS + 1

StepBudget(ph) == IF ph = "run" THEN MAX_STEPS ELSE MAX_STEPS + RESUME_EXTRA_STEPS

\* a budget test that lets one more step through
BudgetExhaustedOffByOne(ph, executed) == executed > StepBudget(ph)

\* if session.total_steps_executed >= MAX_STEPS (+ 3 when resumed)
BudgetExhausted(ph, executed) == executed >= StepBudget(ph)

(***************************************************************************)
(* AgentLoop.run, up to the loop.                                          *)
(***************************************************************************)
RunStart ==
    /\ pc = "idle"
    /\ UNCHANGED otherThanLoop
    /\ phase' = "run"
    /\ total_steps_executed' = 0
    /\ session_memory' = <<>>
    /\ resumes' = 0
    /\ UNCHANGED driver
    /\ \E goal_by_perception \in BOOLEAN, resp \in Responses :
        IF goal_by_perception
        THEN \* handle_perception_completion
             /\ complete' = TRUE
             /\ final_answer' = "solution_summary"
             /\ pc' = "returned"
             /\ exit' = "perception"
             /\ UNCHANGED <<plan_versions, step>>
        ELSE LET d == DecisionRun(resp) IN
             /\ complete' = FALSE
             /\ final_answer' = "None"
             /\ IF d.raised
                THEN /\ pc' = "raised"
                     /\ exit' = "exception"
                     /\ UNCHANGED <<plan_versions, step>>
                ELSE IF d.out["type"] = "HUMAN_IN_LOOP"
                THEN /\ plan_versions' =
                          add_plan_version(plan_versions, d.out["plan_text"],
                              <<[create_step(d.out) EXCEPT !.status = "awaiting_human"]>>)
                     /\ pc' = "returned"
                     /\ exit' = "decision_hitl"
                     /\ UNCHANGED step
                ELSE /\ plan_versions' =
                          add_plan_version(plan_versions, d.out["plan_text"],
                                           <<create_step(d.out)>>)
                     /\ step' = Len(plan_versions')
                     /\ pc' = "loop"
                     /\ exit' = "none"

\* a HUMAN_IN_LOOP branch that charges the step a retry
AwaitHumanChargingRetry(s) == [s EXCEPT !.status = "awaiting_human", !.retries = @ + 1]

\* execute_step, HUMAN_IN_LOOP branch (lines 232-236): only the status is written
AwaitHuman(s) == [s EXCEPT !.status = "awaiting_human"]

\* a clarification branch that charges the step a retry
AskClarificationChargingRetry(s) ==
    [s EXCEPT !.status = "clarification_needed", !.retries = @ + 1]

\* execute_step, NOP branch (lines 226-230): only the status is written
AskClarification(s) == [s EXCEPT !.status = "clarification_needed"]

(***************************************************************************)
(* One pass through the head of the while loop: the budget test and        *)
(* execute_step up to its await of the executor.                           *)
(***************************************************************************)
LoopHead ==
    /\ pc = "loop"
    /\ UNCHANGED otherThanLoop
    /\ step # 0
    /\ UNCHANGED <<phase, total_steps_executed, session_memory, resumes, driver>>
    /\ LET s == StepOf(plan_versions, step) IN
       IF BudgetExhausted(phase, total_steps_executed)
       THEN \* budget exhausted: run() appends a HUMAN_IN_LOOP step, the resumed loop only breaks
            /\ plan_versions' =
                 IF phase = "run"
                 THEN [plan_versions EXCEPT ![Len(plan_versions)].steps =
                          Append(@, MaxStepsHumanStep(s.index))]
                 ELSE plan_versions
            /\ pc' = "returned"
            /\ exit' = "budget"
            /\ UNCHANGED <<step, complete, final_answer>>
       ELSE IF s.type = "CODE"
       THEN IF s.retries >= MAX_RETRIES
            THEN /\ plan_versions' = SetStep(plan_versions, step,
                        [s EXCEPT !.type = "HUMAN_IN_LOOP",
                                  !.status = "awaiting_human",
                                  !.human_in_loop_reason = "MAX_RETRIES_EXCEEDED",
                                  !.human_in_loop_message = "Step has been retried MAX_RETRIES times without success. Please provide guidance."])
                 /\ pc' = "returned"
                 /\ exit' = "step_hitl"
                 /\ UNCHANGED <<step, complete, final_answer>>
            ELSE /\ pc' = "executing"
                 /\ UNCHANGED <<plan_versions, step, complete, final_answer, exit>>
       ELSE IF s.type = "CONCLUDE"
       THEN \E l \in BOOLEAN, o \in BOOLEAN :
                 /\ plan_versions' = SetStep(plan_versions, step,
                        [s EXCEPT !.execution_result = "conclusion",
                                  !.status = "completed",
                                  !.perception = Perception(l, o)])
                 /\ complete' = TRUE            \* session.mark_complete
                 /\ final_answer' = mark_complete("conclusion")
                 /\ pc' = "returned"
                 /\ exit' = "conclude"
                 /\ UNCHANGED step
       ELSE IF s.type = "NOP"
       THEN /\ plan_versions' = SetStep(plan_versions, step, AskClarification(s))
            /\ pc' = "returned"
            /\ exit' = "clarification"
            /\ UNCHANGED <<step, complete, final_answer>>
       ELSE IF s.type = "HUMAN_IN_LOOP"
       THEN /\ plan_versions' = SetStep(plan_versions, step, AwaitHuman(s))
            /\ pc' = "returned"
            /\ exit' = "step_hitl"
            /\ UNCHANGED <<step, complete, final_answer>>
       ELSE \* no branch of execute_step matches: it returns None
            /\ pc' = "returned"
            /\ exit' = "unknown_kind"
            /\ UNCHANGED <<plan_versions, step, complete, final_answer>>

\* a loop that hands the step it has just evaluated back as the next step
ResubmitEvaluatedStep(versions, decision_output) ==
    add_plan_version(versions, decision_output["plan_text"],
                     <<versions[Len(versions)].steps[1]>>)

(***************************************************************************)
(* The decision call of evaluate_step / get_next_step / resume: a          *)
(* HUMAN_IN_LOOP directive becomes an awaiting_human step of a new plan    *)
(* version, any other a pending step of a new plan version; either is      *)
(* returned as the loop's next step.                                       *)
(***************************************************************************)
PlanNextStep(versions, decision_output) ==
    add_plan_version(versions, decision_output["plan_text"],
        <<IF decision_output["type"] = "HUMAN_IN_LOOP"
          THEN [create_step(decision_output) EXCEPT !.status = "awaiting_human"]
          ELSE create_step(decision_output)>>)

\* a failure memory that, once full, drops the entry it was just given
RememberFailureDroppingNewest(memory, entry) ==
    LET appended == Append(memory, entry)
    IN  IF Len(appended) > GLOBAL_PREVIOUS_FAILURE_STEPS
        THEN SubSeq(appended, 1, GLOBAL_PREVIOUS_FAILURE_STEPS)
        ELSE appended

\* the failure memory after a locally failed CODE step (lines 196-205)
RememberFailure(memory, entry) ==
    LET appended == Append(memory, entry)
    IN  IF Len(appended) > GLOBAL_PREVIOUS_FAILURE_STEPS THEN Tail(appended) ELSE appended

(***************************************************************************)
(* The executor returns: the rest of execute_step for a CODE step, then    *)
(* the loop's counter increment and evaluate_step.                         *)
(*   requires_human  executor_response["requires_human_intervention"]      *)
(*   reason          executor_response.get("human_in_loop_reason", ...)    *)
(*   l, o            the evaluation of the result                          *)
(***************************************************************************)
ExecutorReturns ==
    /\ pc = "executing"
    /\ UNCHANGED otherThanLoop
    /\ UNCHANGED <<phase, resumes, driver>>
    /\ \E requires_human \in BOOLEAN, reason \in {"TOOL_FAILURE", "EXECUTOR_REASON"},
          l \in BOOLEAN, o \in BOOLEAN, resp \in Responses :
       LET s == StepOf(plan_versions, step) IN
       IF requires_human
       THEN /\ plan_versions' = SetStep(plan_versions, step,
                   [s EXCEPT !.type = "HUMAN_IN_LOOP",
                             !.status = "awaiting_human",
                             !.human_in_loop_reason = reason,
                             !.human_in_loop_message = "Tool execution failed",
                             !.execution_result = "executor_failure",
                             !.retries = @ + 1,
                             !.attempts = @ + 1])
            /\ pc' = "returned"
            /\ exit' = "step_hitl"
            /\ UNCHANGED <<step, total_steps_executed, session_memory, complete, final_answer>>
       ELSE LET done == [s EXCEPT !.execution_result = "executor_result",
                                  !.status = "completed",
                                  !.perception = Perception(l, o),
                                  !.retries = IF l THEN @ ELSE @ + 1,
                                  !.attempts = @ + 1]
                executed == SetStep(plan_versions, step, done)
            IN
            /\ session_memory' = IF l THEN session_memory
                                 ELSE RememberFailure(session_memory, [query |-> step])
            /\ total_steps_executed' = total_steps_executed + 1
            /\ IF o
               THEN \* evaluate_step: goal achieved
                    /\ plan_versions' = executed
                    /\ complete' = TRUE
                    /\ final_answer' = mark_complete("None")
                    /\ step' = 0
                    /\ pc' = "returned"
                    /\ exit' = "goal_achieved"
               ELSE IF l /\ ~(done.index + 1 < Len(LastVersion.plan_text))
               THEN \* get_next_step: no more steps
                    /\ plan_versions' = executed
                    /\ step' = 0
                    /\ pc' = "returned"
                    /\ exit' = "no_more_steps"
                    /\ UNCHANGED <<complete, final_answer>>
               ELSE \* next plan line, or replanning
                    LET d == DecisionRun(resp) IN
                    /\ UNCHANGED <<complete, final_answer>>
                    /\ IF d.raised
                       THEN /\ plan_versions' = executed
                            /\ pc' = "raised"
                            /\ exit' = "exception"
                            /\ UNCHANGED step
                       ELSE /\ plan_versions' = PlanNextStep(executed, d.out)
                            /\ step' = Len(plan_versions')
                            /\ pc' = "loop"
                            /\ UNCHANGED exit

(***************************************************************************)
(* resume_with_guidance, up to its loop.  The interactive caller resumes   *)
(* a session whose last step asks for a human (main.py line 50).           *)
(***************************************************************************)
AwaitsGuidance ==
    /\ pc = "returned"
    /\ Len(plan_versions) > 0
    /\ LastStep.type \in {"HUMAN_IN_LOOP", "NOP"}

\* main.py resumes a paused session once (lines 59-66); a caller of the API
\* may resume it again and again
MayResume == IF driver = "interactive" THEN resumes = 0 ELSE resumes < MaxResumes

ResumeStart ==
    /\ AwaitsGuidance
    /\ UNCHANGED otherThanLoop
    /\ MayResume
    /\ UNCHANGED driver
    /\ resumes' = resumes + 1
    /\ phase' = "resume"
    /\ UNCHANGED <<total_steps_executed, complete, final_answer>>
    /\ \E first \in Responses, resp \in Responses :
       LET d1 == DecisionRun(first)
           d == DecisionRun(resp)
       IN  IF d1.raised \/ d.raised
           THEN /\ pc' = "raised"
                /\ exit' = "exception"
                /\ UNCHANGED <<plan_versions, step, session_memory>>
           ELSE IF d.out["type"] = "HUMAN_IN_LOOP"
           THEN \* "Guidance didn't resolve the issue": the session is returned as is
                /\ pc' = "returned"
                /\ exit' = "resume_hitl"
                /\ UNCHANGED <<plan_versions, step, session_memory>>
           ELSE /\ plan_versions' = add_plan_version(plan_versions, d.out["plan_text"],
                                                     <<create_step(d.out)>>)
                /\ step' = Len(plan_versions')
                /\ session_memory' = <<>>
                /\ pc' = "loop"
                /\ exit' = "none"

(***************************************************************************)
(* Week-9 sandboxed executor: text heuristics (modules/heuristics_code.py).*)
(* A text is a sequence of one-character strings.                          *)
(***************************************************************************)
UpperCase == <<"A", "B", "C", "D", "E", "F", "G", "H", "I", "J", "K", "L", "M",
               "N", "O", "P", "Q", "R", "S", "T", "U", "V", "W", "X", "Y", "Z">>

LowerCase == <<"a", "b", "c", "d", "e", "f", "g", "h", "i", "j", "k", "l", "m",
               "n", "o", "p", "q", "r", "s", "t", "u", "v", "w", "x", "y", "z">>

\* str.lower() on one character
lower_char(c) ==
    IF \E i \in 1..Len(UpperCase) : UpperCase[i] = c
    THEN LowerCase[CHOOSE i \in 1..Len(UpperCase) : UpperCase[i] = c]
    ELSE c

\* str.lower()
lower(text) == [i \in 1..Len(text) |-> lower_char(text[i])]

\* regular-expression atoms: a literal character, and a class repeated (+)
Lit(c) == [chars |-> {c}, plus |-> FALSE]

Plus(cs) == [chars |-> cs, plus |-> TRUE]

Literal(s) == [i \in 1..Len(s) |-> Lit(s[i])]

\* the class \s
Whitespace == {" ", "\t", "\n", "\r", "\f"}

UNSAFE_PATTERNS ==
    << Literal(<<".", ".">>) \o <<Plus({"/"})>>,
       Literal(<<"<", "s", "c", "r", "i", "p", "t">>),
       Literal(<<"<", "/", "s", "c", "r", "i", "p", "t">>),
       Literal(<<"d", "e", "l", "e", "t", "e">>) \o <<Plus(Whitespace)>>
           \o Literal(<<"f", "r", "o", "m">>),
       Literal(<<"d", "r", "o", "p">>) \o <<Plus(Whitespace)>>
           \o Literal(<<"t", "a", "b", "l", "e">>),
       Literal(<<"r", "m">>) \o <<Plus(Whitespace)>> \o Literal(<<"-", "r", "f">>),
       Literal(<<"e", "v", "a", "l", "(">>),
       Literal(<<"e", "x", "e", "c", "(">>),
       Literal(<<"_", "_", "i", "m", "p", "o", "r", "t", "_", "_">>),
       Literal(<<"s", "y", "s", "t", "e", "m", "(">>),
       Literal(<<"p", "o", "p", "e", "n", "(">>) >>

\* does atom j of the pattern accept the character c
Accepts(atom, c, ignorecase) ==
    IF ignorecase THEN lower_char(c) \in atom.chars ELSE c \in atom.chars

\* the pattern, from atom j on, matches the text starting at position i
RECURSIVE MatchFrom(_, _, _, _, _)
MatchFrom(pattern, j, text, i, ignorecase) ==
    IF j > Len(pattern) THEN TRUE
    ELSE IF i > Len(text) THEN FALSE
    ELSE IF ~Accepts(pattern[j], text[i], ignorecase) THEN FALSE
    ELSE \/ MatchFrom(pattern, j + 1, text, i + 1, ignorecase)
         \/ /\ pattern[j].plus
            /\ MatchFrom(pattern, j, text, i + 1, ignorecase)

\* re.search(pattern, text, flags) is not None
re_search(pattern, text, ignorecase) ==
    \E i \in 1..Len(text) : MatchFrom(pattern, 1, text, i, ignorecase)

\* the check with the case folding left out
contains_unsafe_case_sensitive(code) ==
    \E k \in 1..Len(UNSAFE_PATTERNS) : re_search(UNSAFE_PATTERNS[k], code, FALSE)

\* contains_unsafe_arguments(code)
contains_unsafe_arguments(code) ==
    LET code_lower == lower(code)
    IN  \E k \in 1..Len(UNSAFE_PATTERNS) : re_search(UNSAFE_PATTERNS[k], code_lower, TRUE)

max_tools == 3

max_repeats == 2

\* code.tool_mentions[t] is the number of textual occurrences
\* mcp.call_tool('<t-th distinct name>' in the code
count_distinct_tools(code) == Len(code.tool_mentions)

exceeds_tool_diversity_limit(code) == count_distinct_tools(code) > max_tools

has_excessive_repeats(code) ==
    \E t \in 1..Len(code.tool_mentions) : code.tool_mentions[t] > max_repeats

(***************************************************************************)
(* The AST linter.  The tree of a code is abstracted to: whether it parses,*)
(* how the top-level solve is declared ("def", "async" or "none"), the     *)
(* constructs that occur inside solve's body, and what the statements      *)
(* beside solve do when the module is executed.                            *)
(***************************************************************************)
BodyConstructs ==
    {"nested_def", "nested_async_def", "class", "import", "import_from", "call_eval", "call_exec",
     "call_compile", "call___import__", "call_open", "call_system",
     "while_without_break", "while_with_break"}

\* the error a visit_* method appends for a construct met while in_solve;
\* a nested async def is an AsyncFunctionDef node, which no method visits
LintError(construct) ==
    CASE construct = "nested_def" -> "Nested function definition not allowed"
      [] construct = "class" -> "Class definitions not allowed"
      [] construct \in {"import", "import_from"} -> "Import statements not allowed in solve()"
      [] construct \in {"call_eval", "call_exec", "call_compile", "call___import__",
                        "call_open", "call_system"} -> "Dangerous function call not allowed"
      [] construct = "while_without_break" -> "While loop without break statement"
      [] OTHER -> "none"

\* SolveFunctionLinter: in_solve is set by visit_FunctionDef only; an
\* async def is an AsyncFunctionDef node, walked by generic_visit with
\* in_solve still False
LinterErrors(code) ==
    IF code.solve = "def"
    THEN {LintError(c) : c \in code.body} \ {"none"}
    ELSE {}

lint_solve_function(code) ==
    IF ~code.syntax_ok THEN {"Syntax error"} ELSE LinterErrors(code)

\* validate_solve_code(code): the error list; is_valid is its emptiness
validate_solve_code(code) ==
    (IF contains_unsafe_arguments(code.text) THEN {"Code contains unsafe patterns"} ELSE {})
    \cup (IF exceeds_tool_diversity_limit(code)
          THEN {"Code uses more than 3 distinct tools"} ELSE {})
    \cup (IF has_excessive_repeats(code)
          THEN {"Code calls the same tool more than 2 times"} ELSE {})
    \cup lint_solve_function(code)

(***************************************************************************)
(* run_python_sandbox (modules/action.py).                                 *)
(***************************************************************************)
MAX_TOOL_CALLS_PER_PLAN == 10

\* longest padding put before and after a snippet in a code text
MaxPad == 1

\* most tool calls a solve routine attempts
MaxCalls == 12

NoResult == [kind |-> "none", text |-> "", errors |-> {}]

UnsafeError ==
    [kind |-> "string", text |-> "[sandbox error: unsafe code patterns detected]",
     errors |-> {}]

ValidationError(errors) ==
    [kind |-> "string", text |-> "[sandbox error: validation failed - ...]",
     errors |-> errors]

TimeoutError ==
    [kind |-> "string", text |-> "[sandbox error: execution timeout]", errors |-> {}]

ExecutionError(e) ==
    [kind |-> "string", text |-> "[sandbox error: " \o e \o "]", errors |-> {}]

ResultString(v) == [kind |-> "string", text |-> v, errors |-> {}]

\* exceptions outside the Exception hierarchy
BaseExceptions == {"SystemExit", "KeyboardInterrupt", "CancelledError"}

\* how a body of code can end
Returns == {"return_str", "return_none", "return_dict_with_result", "return_dict",
            "return_list", "return_unserializable_dict", "return_unprintable"}

Raises == {"raise_Exception"} \cup {"raise_" \o e : e \in BaseExceptions}

\* "never": suspended in an await for ever; "busy": loops without awaiting
SolveEnds == Returns \cup Raises \cup {"never", "busy"}

TopLevelEnds ==
    {"none", "ok", "never", "raise_Exception"} \cup {"raise_" \o e : e \in BaseExceptions}

\* lines 92-111: the result formatted, or the exception the formatting
\* raises inside the try block
FormatResult(end) ==
    CASE end = "return_dict_with_result" -> ResultString("result['result']")
      [] end = "return_dict" -> ResultString("json.dumps(result)")
      [] end = "return_list" -> ResultString("' '.join(str(r) for r in result)")
      [] end = "return_unserializable_dict" -> ExecutionError("TypeError")
      [] end = "return_unprintable" -> ExecutionError("Exception")
      [] OTHER -> ResultString("str(result)")

\* what the except clauses of lines 118-123 make of an exception raised in
\* the try block: TimeoutError and Exception become strings, the rest
\* propagates to the caller
Handled(exception) ==
    IF exception = "TimeoutError" THEN [pc |-> "returned", result |-> TimeoutError]
    ELSE IF exception \in BaseExceptions THEN [pc |-> "raised", result |-> NoResult]
    ELSE [pc |-> "returned", result |-> ExecutionError(exception)]

\* the call's outcome when a body of code ends with `end`
Outcome(end) ==
    IF end \in Returns THEN [pc |-> "returned", result |-> FormatResult(end)]
    ELSE IF end = "raise_Exception" THEN Handled("Exception")
    ELSE IF end = "raise_SystemExit" THEN Handled("SystemExit")
    ELSE IF end = "raise_KeyboardInterrupt" THEN Handled("KeyboardInterrupt")
    ELSE IF end = "raise_CancelledError" THEN Handled("CancelledError")
    ELSE [pc |-> "hung", result |-> NoResult]

\* ---- the codes given to the sandbox ----
PadChars == {"x", "/", " "}

RECURSIVE PadsOfLength(_)
PadsOfLength(n) ==
    IF n = 0 THEN { <<>> }
    ELSE { <<c>> \o p : c \in PadChars, p \in PadsOfLength(n - 1) }

Pads == UNION { PadsOfLength(n) : n \in 0..MaxPad }

\* snippets that hold a deny-listed pattern, in several spellings
KnownBadSnippets ==
    { <<".", ".", "/">>,
      <<".", ".", "/", "/">>,
      <<"<", "s", "c", "r", "i", "p", "t">>,
      <<"<", "S", "C", "R", "I", "P", "T">>,
      <<"<", "/", "s", "c", "r", "i", "p", "t">>,
      <<"<", "/", "S", "c", "r", "i", "p", "t">>,
      <<"d", "e", "l", "e", "t", "e", " ", "f", "r", "o", "m">>,
      <<"D", "E", "L", "E", "T", "E", " ", "\t", "F", "R", "O", "M">>,
      <<"d", "r", "o", "p", " ", "t", "a", "b", "l", "e">>,
      <<"D", "r", "o", "p", "\n", "T", "a", "b", "l", "e">>,
      <<"r", "m", " ", "-", "r", "f">>,
      <<"R", "M", " ", " ", "-", "R", "F">>,
      <<"e", "v", "a", "l", "(">>,
      <<"E", "V", "A", "L", "(">>,
      <<"e", "x", "e", "c", "(">>,
      <<"E", "x", "e", "c", "(">>,
      <<"_", "_", "i", "m", "p", "o", "r", "t", "_", "_">>,
      <<"_", "_", "I", "M", "P", "O", "R", "T", "_", "_">>,
      <<"s", "y", "s", "t", "e", "m", "(">>,
      <<"S", "y", "s", "t", "e", "m", "(">>,
      <<"p", "o", "p", "e", "n", "(">>,
      <<"P", "O", "P", "E", "N", "(">> }

\* near misses and harmless text
OtherSnippets ==
    { <<>>,
      <<".", ".">>,
      <<".", "/">>,
      <<"s", "c", "r", "i", "p", "t">>,
      <<"d", "e", "l", "e", "t", "e", "f", "r", "o", "m">>,
      <<"d", "r", "o", "p", "_", "t", "a", "b", "l", "e">>,
      <<"r", "m", "-", "r", "f">>,
      <<"r", "m", " ", "-", "r">>,
      <<"e", "v", "a", "l", " ", "(">>,
      <<"e", "x", "e", "c">>,
      <<"_", "i", "m", "p", "o", "r", "t", "_">>,
      <<"s", "y", "s", "t", "e", "m">>,
      <<"o", "p", "e", "n", "(">>,
      <<"s", "o", "l", "v", "e", "(", ")">> }

Snippets == KnownBadSnippets \cup OtherSnippets

Texts == { pre \o s \o post : pre \in Pads, s \in Snippets, post \in Pads }

PlainText == <<"s", "o", "l", "v", "e", "(", ")">>

ToolMentions == { <<>>, <<1>>, <<2>>, <<3>>, <<1, 2, 1>>, <<1, 1, 1, 1>> }

Behaviour(calls, catches, end) == [calls |-> calls, catches |-> catches, end |-> end]

Code(text, mentions, syntax_ok, solve, body, top, behaviour) ==
    [text |-> text, tool_mentions |-> mentions, syntax_ok |-> syntax_ok,
     solve |-> solve, body |-> body, top |-> top, behaviour |-> behaviour]

Bodies == { {} } \cup { {c} : c \in BodyConstructs }

\* every text, around a few programs
TextCodes ==
    { Code(t, <<1>>, TRUE, sv, {}, "none", Behaviour(1, FALSE, "return_str")) :
        t \in Texts, sv \in {"def", "async"} }

\* every structure, with plain text, around a few behaviours
StructureCodes ==
    { Code(PlainText, mn, ok, sv, b, top, Behaviour(1, FALSE, e)) :
        mn \in ToolMentions, ok \in BOOLEAN, sv \in {"def", "async", "none"},
        b \in Bodies, top \in TopLevelEnds, e \in {"return_str", "raise_SystemExit"} }

\* every behaviour of an accepted code
BehaviourCodes ==
    { Code(PlainText, <<1>>, TRUE, sv, {}, "none", Behaviour(n, c, e)) :
        sv \in {"def", "async"}, n \in 0..MaxCalls, c \in BOOLEAN, e \in SolveEnds }

SandboxInputs == TextCodes \cup StructureCodes \cup BehaviourCodes

\* the accepted codes, with every way their statements and their solve end
DeadlineCodes ==
    BehaviourCodes \cup
    { Code(PlainText, <<1>>, TRUE, sv, {}, top, Behaviour(1, FALSE, e)) :
        sv \in {"def", "async", "none"}, top \in TopLevelEnds,
        e \in {"return_str", "never", "busy"} }

SandboxFresh ==
    /\ sb_result = NoResult
    /\ compiled = FALSE
    /\ call_count = 0
    /\ forwarded = 0
    /\ calls_made = 0

SandboxOff ==
    /\ SandboxFresh
    /\ sb_pc = "off"
    /\ sb_code = Code(<<>>, <<>>, TRUE, "none", {}, "none", Behaviour(0, FALSE, "never"))

SandboxInit ==
    /\ SandboxFresh
    /\ sb_pc = "called"
    /\ sb_code \in SandboxInputs

\* run_python_sandbox up to its first suspension: the two gates, exec of
\* the compiled module, the lookup of solve, and the whole of a
\* synchronous solve (a plain call, line 90)
SandboxEnter ==
    /\ sb_pc = "called"
    /\ UNCHANGED <<sb_code, call_count, forwarded, calls_made>>
    /\ IF contains_unsafe_arguments(sb_code.text)
       THEN /\ sb_pc' = "returned"
            /\ sb_result' = UnsafeError
            /\ UNCHANGED compiled
       ELSE IF validate_solve_code(sb_code) # {}
       THEN /\ sb_pc' = "returned"
            /\ sb_result' = ValidationError(validate_solve_code(sb_code))
            /\ UNCHANGED compiled
       ELSE /\ compiled' = TRUE
            /\ IF sb_code.top \notin {"none", "ok"}
               THEN \* a top-level statement raises during exec
                    /\ sb_pc' = Outcome(sb_code.top).pc
                    /\ sb_result' = Outcome(sb_code.top).result
               ELSE IF sb_code.solve = "none"
               THEN \* ValueError("No solve() function found in plan.")
                    /\ sb_pc' = Handled("No solve() function found in plan.").pc
                    /\ sb_result' = Handled("No solve() function found in plan.").result
               ELSE IF sb_code.solve = "async"
               THEN \* await asyncio.wait_for(solve_fn(), timeout)
                    /\ sb_pc' = "solving"
                    /\ UNCHANGED sb_result
               ELSE \* result = solve_fn()
                    /\ sb_pc' = Outcome(sb_code.behaviour.end).pc
                    /\ sb_result' = Outcome(sb_code.behaviour.end).result
    /\ UNCHANGED otherThanSandbox

\* a quota test that lets one call more through
QuotaExceededOneLate(count) == count > MAX_TOOL_CALLS_PER_PLAN + 1

\* SandboxMCP.call_tool, line 61: the test made on the incremented counter
QuotaExceeded(count) == count > MAX_TOOL_CALLS_PER_PLAN

\* SandboxMCP.call_tool, awaited by the async solve
ToolCall ==
    /\ sb_pc = "solving"
    /\ calls_made < sb_code.behaviour.calls
    /\ calls_made' = calls_made + 1
    /\ call_count' = call_count + 1
    /\ UNCHANGED <<sb_code, compiled>>
    /\ IF QuotaExceeded(call_count')
       THEN \* RuntimeError("Exceeded max tool calls ...") raised into solve
            /\ UNCHANGED forwarded
            /\ IF sb_code.behaviour.catches
               THEN UNCHANGED <<sb_pc, sb_result>>
               ELSE /\ sb_pc' = Handled("Exceeded max tool calls (10) in solve() plan.").pc
                    /\ sb_result' = Handled("Exceeded max tool calls (10) in solve() plan.").result
       ELSE /\ forwarded' = forwarded + 1
            /\ \E tool_ok \in BOOLEAN :
                 IF tool_ok \/ sb_code.behaviour.catches
                 THEN UNCHANGED <<sb_pc, sb_result>>
                 ELSE /\ sb_pc' = Handled("tool error").pc
                      /\ sb_result' = Handled("tool error").result
    /\ UNCHANGED otherThanSandbox

\* the async solve returns or raises after its tool calls
SolveFinishes ==
    /\ sb_pc = "solving"
    /\ calls_made = sb_code.behaviour.calls
    /\ sb_code.behaviour.end # "never"
    /\ sb_pc' = Outcome(sb_code.behaviour.end).pc
    /\ sb_result' = Outcome(sb_code.behaviour.end).result
    /\ UNCHANGED <<sb_code, compiled, call_count, forwarded, calls_made>>
    /\ UNCHANGED otherThanSandbox

\* asyncio.wait_for gives up on the suspended solve
DeadlinePasses ==
    /\ sb_pc = "solving"
    /\ sb_pc' = Handled("TimeoutError").pc
    /\ sb_result' = Handled("TimeoutError").result
    /\ UNCHANGED <<sb_code, compiled, call_count, forwarded, calls_made>>
    /\ UNCHANGED otherThanSandbox

(***************************************************************************)
(* Week-9 historical store and digest (modules/historical_index.py).       *)
(* A string is kept run-length encoded: a sequence of runs [ch, n], no run *)
(* empty, neighbouring runs of different characters.  The character        *)
(* "emdash" stands for the one-character dash of the bullet format.        *)
(***************************************************************************)
Run(c, n) == [ch |-> c, n |-> n]

\* string concatenation
Cat(s, t) ==
    IF s = <<>> THEN t
    ELSE IF t = <<>> THEN s
    ELSE IF s[Len(s)].ch = t[1].ch
    THEN SubSeq(s, 1, Len(s) - 1) \o <<Run(t[1].ch, s[Len(s)].n + t[1].n)>> \o Tail(t)
    ELSE s \o t

\* the string spelled by a sequence of characters
RECURSIVE Str(_)
Str(cs) == IF cs = <<>> THEN <<>> ELSE Cat(<<Run(Head(cs), 1)>>, Str(Tail(cs)))

\* c * n
Repeat(c, n) == IF n = 0 THEN <<>> ELSE <<Run(c, n)>>

\* len(s)
RECURSIVE TextLen(_)
TextLen(s) == IF s = <<>> THEN 0 ELSE s[1].n + TextLen(Tail(s))

\* s[:k]
RECURSIVE Slice(_, _)
Slice(s, k) ==
    IF s = <<>> \/ k = 0 THEN <<>>
    ELSE IF s[1].n >= k THEN <<Run(s[1].ch, k)>>
    ELSE <<s[1]>> \o Slice(Tail(s), k - s[1].n)

\* s.count(c)
RECURSIVE CountChar(_, _)
CountChar(s, c) ==
    IF s = <<>> THEN 0
    ELSE (IF s[1].ch = c THEN s[1].n ELSE 0) + CountChar(Tail(s), c)

\* s.lower()
RECURSIVE lower_text(_)
lower_text(s) ==
    IF s = <<>> THEN <<>>
    ELSE Cat(<<Run(lower_char(s[1].ch), s[1].n)>>, lower_text(Tail(s)))

\* sep.join(parts)
RECURSIVE Join(_, _)
Join(parts, sep) ==
    IF parts = <<>> THEN <<>>
    ELSE IF Len(parts) = 1 THEN parts[1]
    ELSE Cat(Cat(parts[1], sep), Join(Tail(parts), sep))

DigitChars == <<"0", "1", "2", "3", "4", "5", "6", "7", "8", "9">>

\* the class \w
WordChar(c) ==
    \/ \E i \in 1..Len(LowerCase) : LowerCase[i] = c
    \/ \E i \in 1..Len(UpperCase) : UpperCase[i] = c
    \/ \E i \in 1..Len(DigitChars) : DigitChars[i] = c
    \/ c = "_"

\* re.findall(r'\b\w+\b', s): the maximal runs of word characters
RECURSIVE FindWords(_, _)
FindWords(s, word) ==
    IF s = <<>> THEN (IF word = <<>> THEN <<>> ELSE <<word>>)
    ELSE IF WordChar(s[1].ch) THEN FindWords(Tail(s), word \o <<s[1]>>)
    ELSE (IF word = <<>> THEN <<>> ELSE <<word>>) \o FindWords(Tail(s), <<>>)

stop_words ==
    { Str(<<"t", "h", "e">>),
      Str(<<"a">>),
      Str(<<"a", "n">>),
      Str(<<"a", "n", "d">>),
      Str(<<"o", "r">>),
      Str(<<"b", "u", "t">>),
      Str(<<"i", "n">>),
      Str(<<"o", "n">>),
      Str(<<"a", "t">>),
      Str(<<"t", "o">>),
      Str(<<"f", "o", "r">>),
      Str(<<"o", "f">>),
      Str(<<"w", "i", "t", "h">>),
      Str(<<"b", "y">>),
      Str(<<"f", "r", "o", "m">>),
      Str(<<"a", "s">>),
      Str(<<"i", "s">>),
      Str(<<"w", "a", "s">>),
      Str(<<"a", "r", "e">>),
      Str(<<"w", "e", "r", "e">>),
      Str(<<"b", "e">>),
      Str(<<"b", "e", "e", "n">>),
      Str(<<"b", "e", "i", "n", "g">>),
      Str(<<"h", "a", "v", "e">>),
      Str(<<"h", "a", "s">>),
      Str(<<"h", "a", "d">>),
      Str(<<"d", "o">>),
      Str(<<"d", "o", "e", "s">>),
      Str(<<"d", "i", "d">>),
      Str(<<"w", "i", "l", "l">>),
      Str(<<"w", "o", "u", "l", "d">>),
      Str(<<"s", "h", "o", "u", "l", "d">>),
      Str(<<"c", "o", "u", "l", "d">>),
      Str(<<"m", "a", "y">>),
      Str(<<"m", "i", "g", "h", "t">>),
      Str(<<"m", "u", "s", "t">>),
      Str(<<"c", "a", "n">>),
      Str(<<"t", "h", "i", "s">>),
      Str(<<"t", "h", "a", "t">>),
      Str(<<"t", "h", "e", "s", "e">>),
      Str(<<"t", "h", "o", "s", "e">>),
      Str(<<"i">>),
      Str(<<"y", "o", "u">>),
      Str(<<"h", "e">>),
      Str(<<"s", "h", "e">>),
      Str(<<"i", "t">>),
      Str(<<"w", "e">>),
      Str(<<"t", "h", "e", "y">>) }

\* extract_query_terms(user_input)
extract_query_terms(user_input) ==
    SelectSeq(FindWords(lower_text(user_input), <<>>),
              LAMBDA t : t \notin stop_words /\ TextLen(t) > 2)

Range(f) == { f[i] : i \in DOMAIN f }

\* simple_cosine_similarity(text1, text2), as the fraction num/den
simple_cosine_similarity(text1, text2) ==
    LET words1 == Range(extract_query_terms(text1))
        words2 == Range(extract_query_terms(text2))
    IN  IF words1 = {} \/ words2 = {}
        THEN [num |-> 0, den |-> 1]
        ELSE [num |-> Cardinality(words1 \cap words2),
              den |-> Cardinality(words1 \cup words2)]

\* scores are counted in units of 1/6000, so that 0.01 is 60 units and the
\* relevance term 0.30 * num/den is a whole number for den up to 6
Hundredths(n) == 60 * n

\* 0.30 * exp(-age_hours / 168) for an age of 0, 1, 2 weeks, in units
RecencyUnits == <<1800, 662, 244>>

\* ---- the fields of a stored record ----
\* timestamp: an ISO string of a given age, a string that does not parse,
\* or no timestamp at all
IsoTimestamp(weeks) == [kind |-> "iso", weeks |-> weeks]

BadTimestamp == [kind |-> "unparseable", weeks |-> 0]

NoTimestamp == [kind |-> "absent", weeks |-> 0]

\* tool: a name, or None
Tool(name) == [none |-> FALSE, name |-> name]

NoTool == [none |-> TRUE, name |-> <<>>]

Entry(timestamp, user, assistant, tool, success, result) ==
    [timestamp |-> timestamp, user |-> user, assistant |-> assistant,
     tool |-> tool, success |-> success, result |-> result]

\* item.get('tool') is truthy
HasTool(item) == ~item.tool.none /\ item.tool.name # <<>>

\* f"{item.get('user', '')} {item.get('assistant', '')}".lower()
\* a JSON null where a record should hold text: no string, told from every
\* string by its empty run
Null == <<Run("null", 0)>>

\* f"{value}"
Shown(value) == IF value = Null THEN Str(<<"N", "o", "n", "e">>) ELSE value

ItemText(item) ==
    lower_text(Cat(Cat(Shown(item.user), Str(<<" ">>)), Shown(item.assistant)))

\* simple_cosine_similarity(item_text, seen_text) > 0.8 (line 130)
NearDuplicate(text1, text2) ==
    LET sim == simple_cosine_similarity(text1, text2)
    IN  5 * sim.num > 4 * sim.den

\* calculate_historical_score(item, query_terms, current_time, seen_texts)
calculate_historical_score(item, query_terms, seen_texts) ==
    LET item_text == ItemText(item)
        recency == IF item.timestamp.kind = "iso"
                   THEN RecencyUnits[item.timestamp.weeks + 1]
                   ELSE Hundredths(5)
        query_text == Join(query_terms, Str(<<" ">>))
        similarity == simple_cosine_similarity(query_text, item_text)
        relevance == (Hundredths(30) * similarity.num) \div similarity.den
        tool_signal == IF item.success /\ HasTool(item) THEN Hundredths(15)
                       ELSE IF HasTool(item) THEN Hundredths(5)
                       ELSE 0
        provenance == (IF item.timestamp.kind # "absent" THEN Hundredths(3) ELSE 0)
                      + (IF HasTool(item) THEN Hundredths(4) ELSE 0)
                      + (IF item.result THEN Hundredths(3) ELSE 0)
        text_length == TextLen(item_text)
        length_score == IF text_length < 200 THEN Hundredths(10)
                        ELSE IF text_length < 500 THEN Hundredths(7)
                        ELSE IF text_length < 1000 THEN Hundredths(4)
                        ELSE Hundredths(1)
        is_diverse == \A seen_text \in seen_texts : ~NearDuplicate(item_text, seen_text)
    IN  recency + relevance + tool_signal + provenance + length_score
        + (IF is_diverse THEN Hundredths(5) ELSE 0)

max_bullets == 10

max_chars == 1500

INTENT_CHARS == 50

SUMMARY_CHARS == 80

\* the decimal digits of a natural number
RECURSIVE Digits(_)
Digits(n) ==
    IF n < 10 THEN Str(<<DigitChars[n + 1]>>)
    ELSE Cat(Digits(n \div 10), Str(<<DigitChars[(n % 10) + 1]>>))

\* f"{score:.2f}"
FormatScore(score) ==
    LET hundredths == (score + 30) \div 60
    IN  Cat(Cat(Digits(hundredths \div 100), Str(<<".">>)),
            Cat(Digits((hundredths % 100) \div 10), Digits(hundredths % 10)))

\* dt.strftime('%Y-%m-%d'), or "Unknown"
DateStr(timestamp) ==
    IF timestamp.kind # "iso" THEN Str(<<"U", "n", "k", "n", "o", "w", "n">>)
    ELSE IF timestamp.weeks = 0 THEN Str(<<"2", "0", "2", "6", "-", "1", "1", "-", "0", "1">>)
    ELSE IF timestamp.weeks = 1 THEN Str(<<"2", "0", "2", "6", "-", "1", "0", "-", "2", "5">>)
    ELSE Str(<<"2", "0", "2", "6", "-", "1", "0", "-", "1", "8">>)

Ellipsis == Str(<<".", ".", ".">>)

\* text[:limit] + "..." if len(text) > limit else text
Shorten(text, limit) ==
    IF TextLen(text) > limit THEN Cat(Slice(text, limit), Ellipsis) ELSE text

\* one line of the digest (lines 153-176)
FormatBullet(score, item) ==
    LET date_str == DateStr(item.timestamp)
        intent == Shorten(item.user, INTENT_CHARS)
        summary == Shorten(item.assistant, SUMMARY_CHARS)
        tool_name == IF item.tool.none THEN Str(<<"N", "o", "n", "e">>) ELSE item.tool.name
    IN  Join(<< Str(<<"-", " ">>), date_str, Str(<<" ", "emdash", " ">>), intent, Str(<<" ", "emdash", " ">>), summary,
               Str(<<" ", "emdash", " ", "[", "t", "o", "o", "l", ":", " ">>), tool_name, Str(<<"]", " ", "emdash", " ", "s", "c", "o", "r", "e", ":", " ">>), FormatScore(score) >>, <<>>)

\* a loop that skips a bullet that does not fit and goes on with the next
RECURSIVE KeepBulletsThatFit(_, _, _)
KeepBulletsThatFit(items, bullets, total_chars) ==
    IF items = <<>> THEN bullets
    ELSE LET bullet == FormatBullet(items[1].score, items[1].item)
         IN  IF total_chars + TextLen(bullet) + 1 > max_chars
             THEN KeepBulletsThatFit(Tail(items), bullets, total_chars)
             ELSE KeepBulletsThatFit(Tail(items), Append(bullets, bullet),
                                     total_chars + TextLen(bullet) + 1)

\* the loop of compress_to_bullets: the bullets kept
RECURSIVE KeepBullets(_, _, _)
KeepBullets(items, bullets, total_chars) ==
    IF items = <<>> THEN bullets
    ELSE LET bullet == FormatBullet(items[1].score, items[1].item)
         IN  IF total_chars + TextLen(bullet) + 1 > max_chars
             THEN bullets
             ELSE KeepBullets(Tail(items), Append(bullets, bullet),
                              total_chars + TextLen(bullet) + 1)

\* len(user_query) / len(assistant_resp) (lines 166, 170) raises TypeError
LenRaises(item) == item.user = Null \/ item.assistant = Null

\* the loop of compress_to_bullets reaches a record on which it raises
RECURSIVE CompressRaises(_, _)
CompressRaises(items, total_chars) ==
    IF items = <<>> THEN FALSE
    ELSE IF LenRaises(items[1].item) THEN TRUE
    ELSE LET bullet == FormatBullet(items[1].score, items[1].item)
         IN  IF total_chars + TextLen(bullet) + 1 > max_chars
             THEN FALSE
             ELSE CompressRaises(Tail(items), total_chars + TextLen(bullet) + 1)

\* items[:max_bullets]
FirstItems(items, n) == SubSeq(items, 1, IF Len(items) < n THEN Len(items) ELSE n)

compress_to_bullets(items) ==
    Join(KeepBullets(FirstItems(items, max_bullets), <<>>, 0), Str(<<"\n">>))

\* the scoring loop (lines 223-232)
RECURSIVE ScoreItems(_, _, _)
ScoreItems(items, query_terms, seen_texts) ==
    IF items = <<>> THEN <<>>
    ELSE LET item == items[1]
             score == calculate_historical_score(item, query_terms, seen_texts)
         IN  <<[score |-> score, item |-> item]>>
             \o ScoreItems(Tail(items), query_terms,
                           seen_texts \cup {ItemText(item)})

\* list.sort(key=score, reverse=True): stable, highest score first
RECURSIVE InsertByScore(_, _)
InsertByScore(sorted, x) ==
    IF sorted = <<>> THEN <<x>>
    ELSE IF sorted[1].score >= x.score
    THEN <<sorted[1]>> \o InsertByScore(Tail(sorted), x)
    ELSE <<x>> \o sorted

RECURSIVE SortByScore(_)
SortByScore(items) ==
    IF items = <<>> THEN <<>>
    ELSE InsertByScore(SortByScore(SubSeq(items, 1, Len(items) - 1)), items[Len(items)])

Sentinel == 
    Str(<<"N", "o", " ", "r", "e", "l", "e", "v", "a", "n", "t", " ", "h", "i", "s", "t", "o", "r", "i", "c", "a", "l", " ", "c", "o", "n", "t", "e", "x", "t", " ", "f", "o", "u", "n", "d", ".">>)

\* the store file: missing, not parseable, a JSON value that is not a
\* list, or a list of records
\* the length of one record / of a list of records as json.dump writes
\* them, counting a fixed 100 characters of keys and punctuation per record
EntrySize(item) ==
    100 + TextLen(item.user) + TextLen(item.assistant) + TextLen(item.tool.name)

RECURSIVE DocSize(_)
DocSize(items) ==
    IF items = <<>> THEN 2 ELSE EntrySize(items[1]) + DocSize(Tail(items))

MissingFile == [kind |-> "missing", items |-> <<>>, size |-> 0]

UnreadableFile(size) == [kind |-> "unreadable", items |-> <<>>, size |-> size]

NotAListFile == [kind |-> "not_a_list", items |-> <<>>, size |-> 2]

ListFile(items) == [kind |-> "list", items |-> items, size |-> DocSize(items)]

\* get_historical_context(user_input, memory_path)
get_historical_context(user_input, file) ==
    IF file.kind # "list" \/ file.items = <<>> THEN Sentinel
    ELSE LET query_terms == extract_query_terms(user_input)
         IN  IF query_terms = <<>> THEN Sentinel
             ELSE LET scored_items == SortByScore(ScoreItems(file.items, query_terms, {}))
                      summary == compress_to_bullets(scored_items)
                  IN  IF summary = <<>> THEN Sentinel ELSE summary

\* ---- stores and queries given to the digest ----
\* most records in a store
MaxRecords == 12

ShortUser == Str(<<"f", "i", "n", "d", " ", "c", "a", "t", "s">>)

ShortAssistant == Str(<<"c", "a", "t", "s", " ", "f", "o", "u", "n", "d">>)

\* the first INTENT_CHARS characters hold line breaks
BrokenUser == Cat(Cat(Str(<<"c", "a", "t">>), Repeat("\n", 3)), Str(<<"d", "o", "g">>))

LongUser == Cat(Str(<<"f", "i", "n", "d", " ", "c", "a", "t", "s">>), Repeat("a", INTENT_CHARS + 10))

LongAssistant == Cat(Str(<<"c", "a", "t", "s", " ", "f", "o", "u", "n", "d">>), Repeat("b", SUMMARY_CHARS + 1))

BrokenAssistant == Cat(Str(<<"c", "a", "t", "s", " ", "f", "o", "u", "n", "d">>), Repeat("\n", SUMMARY_CHARS))

Users == { <<>>, ShortUser, LongUser, BrokenUser, Null }

Assistants == { <<>>, ShortAssistant, LongAssistant, BrokenAssistant, Null }

SearchTool == Tool(Str(<<"s", "e", "a", "r", "c", "h">>))

\* a tool name as long as half / all of the character budget
LongTool == Tool(Repeat("t", max_chars \div 2))

HugeTool == Tool(Repeat("t", max_chars))

Tools == { NoTool, SearchTool, LongTool, HugeTool }

Timestamps == { IsoTimestamp(0), IsoTimestamp(1), IsoTimestamp(2), BadTimestamp, NoTimestamp }

AllEntries ==
    { Entry(ts, u, a, t, s, r) :
        ts \in Timestamps, u \in Users, a \in Assistants, t \in Tools,
        s \in BOOLEAN, r \in BOOLEAN }

PlainEntry == Entry(IsoTimestamp(0), ShortUser, ShortAssistant, SearchTool, TRUE, TRUE)

OldEntry == Entry(IsoTimestamp(1), LongUser, LongAssistant, SearchTool, FALSE, TRUE)

BrokenEntry == Entry(IsoTimestamp(0), BrokenUser, ShortAssistant, NoTool, FALSE, FALSE)

LongToolEntry == Entry(IsoTimestamp(2), ShortUser, LongAssistant, LongTool, TRUE, FALSE)

RepeatedEntries == { PlainEntry, OldEntry, BrokenEntry, LongToolEntry }

Copies(item, n) == [i \in 1..n |-> item]

NullUserEntry == Entry(IsoTimestamp(1), Null, ShortAssistant, NoTool, FALSE, FALSE)

\* the text of PlainEntry in an older record that used no tool
StaleEntry == Entry(IsoTimestamp(2), ShortUser, ShortAssistant, NoTool, FALSE, FALSE)

\* n copies of one record followed by m copies of another
Stores ==
    { Copies(x, n) \o Copies(y, m) :
        x \in RepeatedEntries, y \in RepeatedEntries, n \in 0..MaxRecords, m \in 0..1 }
    \cup { Copies(x, n) \o Copies(y, MaxRecords - n) :
        x \in RepeatedEntries, y \in RepeatedEntries, n \in 0..MaxRecords }
    \cup { <<x>> : x \in AllEntries }
    \cup { Copies(x, n) \o <<NullUserEntry>> : x \in RepeatedEntries, n \in 1..MaxRecords }
    \cup { <<x, y>> \o Copies(z, n) :
              x \in {PlainEntry, StaleEntry}, y \in {PlainEntry, StaleEntry},
              z \in {BrokenEntry, OldEntry}, n \in 0..1 }

StoreFiles ==
    { MissingFile, UnreadableFile(0), NotAListFile } \cup { ListFile(s) : s \in Stores }

Queries == { ShortUser, Str(<<"t", "h", "e", " ", "a">>), <<>> }

DigestOff ==
    /\ h_pc = "off"
    /\ h_query = <<>>
    /\ h_digest = <<>>

DigestInit ==
    /\ h_pc = "called"
    /\ h_query \in Queries
    /\ h_digest = <<>>
    /\ store_file \in StoreFiles

\* one call of get_historical_context
\* get_historical_context raises out of compress_to_bullets (line 239)
ContextRaises(user_input, file) ==
    /\ file.kind = "list"
    /\ file.items # <<>>
    /\ extract_query_terms(user_input) # <<>>
    /\ CompressRaises(
          FirstItems(SortByScore(ScoreItems(file.items, extract_query_terms(user_input), {})),
                     max_bullets), 0)

GetHistoricalContext ==
    /\ h_pc = "called"
    /\ IF ContextRaises(h_query, store_file)
       THEN /\ h_pc' = "raised"
            /\ UNCHANGED h_digest
       ELSE /\ h_digest' = get_historical_context(h_query, store_file)
            /\ h_pc' = "returned"
    /\ UNCHANGED <<h_query, store_file, appendVars>>
    /\ UNCHANGED otherThanStore

\* the number of lines of a text
Lines(s) == CountChar(s, "\n") + 1

(***************************************************************************)
(* append_to_historical_store, called by concurrent sessions (agent.py     *)
(* main, one process per session) on the same store file.                  *)
(***************************************************************************)
Sessions == {1, 2}

\* most records in the store before the sessions append
MaxPrior == 2

\* what each session appends
NewEntry(p) ==
    IF p = 1
    THEN Entry(IsoTimestamp(0), ShortUser, ShortAssistant, SearchTool, TRUE, TRUE)
    ELSE Entry(IsoTimestamp(0), LongUser, LongAssistant, NoTool, FALSE, FALSE)

PriorStores ==
    { Copies(x, n) \o Copies(y, m) :
        x \in {PlainEntry, OldEntry}, y \in {BrokenEntry}, n \in 0..MaxPrior, m \in 0..1 }

PriorFiles ==
    { MissingFile, UnreadableFile(0), NotAListFile } \cup { ListFile(s) : s \in PriorStores }

\* a list document followed by stray bytes (a crashed or overlaid write):
\* the records are in the file, json.load fails on it
DamagedFile(items) == [kind |-> "unreadable", items |-> items, size |-> DocSize(items) + 1]

SequentialFiles ==
    PriorFiles \cup { DamagedFile(s) : s \in PriorStores \ { <<>> } }

AppendOff ==
    /\ a_pc = [p \in Sessions |-> "off"]
    /\ memory_items = [p \in Sessions |-> <<>>]
    /\ prior = MissingFile

AppendInit ==
    /\ a_pc = [p \in Sessions |-> "called"]
    /\ memory_items = [p \in Sessions |-> <<>>]
    /\ store_file \in PriorFiles
    /\ prior = store_file

\* lines 259-280: read the file, fall back to an empty list, append
Load(p) ==
    /\ a_pc[p] = "called"
    /\ IF store_file.kind = "not_a_list"
       THEN \* memory_items.append on a value that is not a list
            /\ a_pc' = [a_pc EXCEPT ![p] = "raised"]
            /\ UNCHANGED memory_items
       ELSE /\ memory_items' =
                 [memory_items EXCEPT
                    ![p] = Append(IF store_file.kind = "list" THEN store_file.items ELSE <<>>,
                                  NewEntry(p))]
            /\ a_pc' = [a_pc EXCEPT ![p] = "loaded"]
    /\ UNCHANGED <<store_file, prior, digestVars>>
    /\ UNCHANGED otherThanStore

\* line 283: open(memory_path, 'w') creates or truncates the file
OpenForWriting(p) ==
    /\ a_pc[p] = "loaded"
    /\ store_file' = UnreadableFile(0)
    /\ a_pc' = [a_pc EXCEPT ![p] = "opened"]
    /\ UNCHANGED <<memory_items, prior, digestVars>>
    /\ UNCHANGED otherThanStore

\* the file after a document is written from offset 0 over its content
Overwritten(file, items) ==
    IF file.size > DocSize(items) THEN UnreadableFile(file.size) ELSE ListFile(items)

\* line 284 and the end of the with block: the dumped list reaches the file
\* no other session is inside append_to_historical_store
Alone(p) == \A q \in Sessions \ {p} : a_pc[q] \in {"called", "done", "raised"}

DumpAndClose(p) ==
    /\ a_pc[p] = "opened"
    /\ store_file' = Overwritten(store_file, memory_items[p])
    /\ a_pc' = [a_pc EXCEPT ![p] = "done"]
    /\ UNCHANGED <<memory_items, prior, digestVars>>
    /\ UNCHANGED otherThanStore

(***************************************************************************)
(* The control loop's specification.                                       *)
(***************************************************************************)
LoopFresh ==
    /\ phase = "none"
    /\ exit = "none"
    /\ plan_versions = <<>>
    /\ step = 0
    /\ total_steps_executed = 0
    /\ session_memory = <<>>
    /\ complete = FALSE
    /\ final_answer = "None"
    /\ resumes = 0

LoopInit == LoopFresh /\ pc = "idle"

LoopOff == LoopFresh /\ pc = "off" /\ driver = "none"

vars == <<loopVars, decisionVars, sandboxVars, storeVars>>

StoreOff == DigestOff /\ AppendOff /\ store_file = MissingFile

Init == LoopInit /\ driver = "interactive" /\ DecisionOff /\ SandboxOff /\ StoreOff

InitApi == LoopInit /\ driver = "api" /\ DecisionOff /\ SandboxOff /\ StoreOff

Next ==
    \/ RunStart
    \/ LoopHead
    \/ ExecutorReturns
    \/ ResumeStart

Spec == Init /\ [][Next]_vars

\* a session resumed up to MaxResumes times
SpecApi == InitApi /\ [][Next]_vars

\* one call of run() in which every oracle and executor call returns.  run()
\* is a coroutine the caller awaits: the event loop keeps running it, and
\* the executor call it awaits returns, so a step that can be taken is taken.
InitRun == LoopInit /\ driver = "run" /\ DecisionOff /\ SandboxOff /\ StoreOff

NextRun ==
    \/ RunStart
    \/ LoopHead
    \/ ExecutorReturns

SpecRunFair == InitRun /\ [][NextRun]_vars /\ WF_vars(NextRun)

\* one call of Decision.run
InitDecision == LoopOff /\ DecisionInit /\ SandboxOff /\ StoreOff

NextDecision == Decide

SpecDecision == InitDecision /\ [][NextDecision]_vars

\* one call of run_python_sandbox
InitSandbox == LoopOff /\ DecisionOff /\ SandboxInit /\ StoreOff

NextSandbox ==
    \/ SandboxEnter
    \/ ToolCall
    \/ SolveFinishes
    \/ DeadlinePasses

SpecSandbox == InitSandbox /\ [][NextSandbox]_vars

\* the event loop keeps running whatever is ready: a step that stays
\* possible (a tool call returning, the deadline timer of wait_for) is taken
InitDeadline ==
    /\ LoopOff /\ DecisionOff /\ StoreOff
    /\ SandboxFresh
    /\ sb_pc = "called"
    /\ sb_code \in DeadlineCodes

SpecSandboxFair == InitDeadline /\ [][NextSandbox]_vars /\ WF_vars(NextSandbox)

\* one call of get_historical_context
InitDigest == LoopOff /\ DecisionOff /\ SandboxOff /\ DigestInit /\ AppendOff

NextDigest == GetHistoricalContext

SpecDigest == InitDigest /\ [][NextDigest]_vars

\* two sessions appending to the same store
InitAppend == LoopOff /\ DecisionOff /\ SandboxOff /\ DigestOff /\ AppendInit

NextAppend ==
    \E p \in Sessions :
        \/ Load(p)
        \/ OpenForWriting(p)
        \/ DumpAndClose(p)

SpecAppend == InitAppend /\ [][NextAppend]_vars

\* the sessions append one after the other
InitSequential ==
    /\ LoopOff /\ DecisionOff /\ SandboxOff /\ DigestOff
    /\ a_pc = [p \in Sessions |-> "called"]
    /\ memory_items = [p \in Sessions |-> <<>>]
    /\ store_file \in SequentialFiles
    /\ prior = store_file

NextSequential ==
    \E p \in Sessions :
        \/ Alone(p) /\ Load(p)
        \/ Alone(p) /\ OpenForWriting(p)
        \/ Alone(p) /\ DumpAndClose(p)

SpecSequential == InitSequential /\ [][NextSequential]_vars

(***************************************************************************)
(* Observations over a session.                                            *)
(***************************************************************************)
StepIds == {<<v, i>> \in (1..Len(plan_versions)) \X (1..2) : i <= Len(plan_versions[v].steps)}

StepAt(id) == plan_versions[id[1]].steps[id[2]]

\* every executor call of the session ended in a result judged a local failure
ToolAlwaysFailed ==
    /\ \E id \in StepIds : StepAt(id).attempts > 0
    /\ \A id \in StepIds :
          StepAt(id).attempts > 0 =>
             /\ StepAt(id).perception.evaluated
             /\ ~StepAt(id).perception.local_goal_achieved
             /\ ~StepAt(id).perception.original_goal_achieved

\* every proposal of the oracle was a CODE step
OracleProposedOnlyCode ==
    \A v \in 1..Len(plan_versions) : plan_versions[v].steps[1].type = "CODE"

DispatchedKinds == {"CODE", "CONCLUDE", "NOP", "HUMAN_IN_LOOP"}

(***************************************************************************)
(* C1.  A run against a tool that always fails ends awaiting a human with  *)
(* reason MAX_RETRIES_EXCEEDED, the failing step having been attempted     *)
(* exactly MAX_RETRIES times.                                              *)
(***************************************************************************)
C1_RetriesThenEscalates ==
    (pc = "returned" /\ phase = "run" /\ ToolAlwaysFailed /\ OracleProposedOnlyCode)
        => \E id \in StepIds :
              /\ StepAt(id).type = "HUMAN_IN_LOOP"
              /\ StepAt(id).human_in_loop_reason = "MAX_RETRIES_EXCEEDED"
              /\ StepAt(id).attempts = MAX_RETRIES

(***************************************************************************)
(* C2 (as claimed).  The cumulative steps_executed counter never exceeds   *)
(* MAX_STEPS, across run() and later resume_with_guidance() calls.         *)
(***************************************************************************)
C2_NeverExceedsMaxSteps == total_steps_executed <= MAX_STEPS

(***************************************************************************)
(* C2 (amended).  While run() drives the loop steps_executed never exceeds *)
(* MAX_STEPS; across later resume_with_guidance() calls it may exceed      *)
(* MAX_STEPS but never MAX_STEPS + 3.                                      *)
(***************************************************************************)
C2_StepsWithinLoopBudget ==
    /\ phase = "run" => total_steps_executed <= MAX_STEPS
    /\ total_steps_executed <= MAX_STEPS + RESUME_EXTRA_STEPS

\* a resumed session that has used the whole of the larger budget
C2_Witness ==
    /\ phase = "resume"
    /\ resumes = MaxResumes
    /\ total_steps_executed = MAX_STEPS + RESUME_EXTRA_STEPS

(***************************************************************************)
(* C3.  Whenever a loop stops because its step budget is exhausted, the    *)
(* pending step has not been started and the last step of the latest plan  *)
(* version is a HUMAN_IN_LOOP step, awaiting_human, with reason            *)
(* MAX_STEPS_EXCEEDED.                                                     *)
(***************************************************************************)
C3_BudgetStopLeavesHumanStep ==
    (pc = "returned" /\ exit = "budget")
        => /\ StepOf(plan_versions, step).attempts = 0
           /\ LastStep.type = "HUMAN_IN_LOOP"
           /\ LastStep.status = "awaiting_human"
           /\ LastStep.human_in_loop_reason = "MAX_STEPS_EXCEEDED"

(***************************************************************************)
(* C4.  Whenever run() or resume_with_guidance() returns, the session is   *)
(* complete or the last step of its latest plan version has status         *)
(* awaiting_human or clarification_needed.  Stated for sessions whose      *)
(* steps all have a kind the loop dispatches on, so that the end state is  *)
(* decided by the evaluation flags and the plan length.                    *)
(***************************************************************************)
C4_DefinedEndState ==
    (pc = "returned" /\ \A id \in StepIds : StepAt(id).type \in DispatchedKinds)
        => \/ complete
           \/ /\ Len(plan_versions) > 0
              /\ LastStep.status \in {"awaiting_human", "clarification_needed"}

(***************************************************************************)
(* C5.  run() never raises when the reasoning oracle fails.                *)
(***************************************************************************)
C5_RunNeverRaises == ~(phase = "run" /\ pc = "raised")

(***************************************************************************)
(* C6.  Decision.run is total over oracle text: for every returned text it *)
(* returns, without raising, a record that holds step_index, description,  *)
(* type, code, conclusion and plan_text.                                   *)
(***************************************************************************)
C6_ValidatorTotal ==
    (d_pc \in {"returned", "raised"} /\ d_resp.call = "ok" /\ d_resp.hasText)
        => /\ d_pc = "returned"
           /\ RequiredKeys \subseteq DOMAIN d_result.out

\* a JSON object that lacks required fields and nests a next_step mapping
C6_Witness ==
    /\ d_pc = "returned"
    /\ d_resp.valid
    /\ "next_step" \in DOMAIN d_resp.obj
    /\ d_resp.obj["next_step"].shape = "dict"
    /\ ~("plan_text" \in DOMAIN d_resp.obj)
    /\ ~("code" \in DOMAIN d_resp.obj["next_step"].obj)
    /\ d_result.out["plan_text"] = Defaults["plan_text"]
    /\ d_result.out["code"] = ""

(***************************************************************************)
(* C7.  A code text that holds a deny-listed pattern, in any letter case,  *)
(* anywhere in the text, makes run_python_sandbox return the policy        *)
(* violation string; the code is never compiled or executed and no call    *)
(* reaches the tool gateway.                                               *)
(***************************************************************************)
HoldsDenyListedPattern(text) ==
    \E k \in 1..Len(UNSAFE_PATTERNS), i \in 1..Len(text) :
        MatchFrom(UNSAFE_PATTERNS[k], 1, lower(text), i, FALSE)

C7_DenyListedNeverRuns ==
    HoldsDenyListedPattern(sb_code.text)
        => /\ ~compiled
           /\ call_count = 0
           /\ forwarded = 0
           /\ \/ sb_pc = "called"
              \/ sb_pc = "returned" /\ sb_result = UnsafeError

\* a pattern spelled with capital letters, inside a longer text
C7_Witness ==
    /\ sb_pc = "returned"
    /\ sb_result = UnsafeError
    /\ HoldsDenyListedPattern(sb_code.text)
    /\ sb_code.text # lower(sb_code.text)
    /\ Len(sb_code.text) > 10
    /\ ~compiled

(***************************************************************************)
(* C8.  run_python_sandbox always returns a string and never raises,       *)
(* whatever the executed code does.                                        *)
(***************************************************************************)
C8_AlwaysReturnsString ==
    /\ sb_pc # "raised"
    /\ sb_pc = "returned" => sb_result.kind = "string"

(***************************************************************************)
(* C9.  The digest returned by get_historical_context has at most 10 lines *)
(* and at most 1,500 characters, for every store and query, whatever the   *)
(* records hold.                                                           *)
(***************************************************************************)
C9_DigestWithinBudget ==
    h_pc = "returned"
        => /\ TextLen(h_digest) <= max_chars
           /\ Lines(h_digest) <= max_bullets

(***************************************************************************)
(* C10.  Appends are serialized: once both sessions have appended, the     *)
(* store is a readable list that holds both new records and every record   *)
(* it held before.                                                         *)
(***************************************************************************)
Holds(file, item) == file.kind = "list" /\ \E i \in 1..Len(file.items) : file.items[i] = item

C10_AppendsSerialized ==
    (\A p \in Sessions : a_pc[p] = "done")
        => /\ \A p \in Sessions : Holds(store_file, NewEntry(p))
           /\ \A i \in 1..Len(prior.items) : Holds(store_file, prior.items[i])

(***************************************************************************)
(* C11.  The store is append-only: after a call of                         *)
(* append_to_historical_store the store holds every record it held before, *)
(* unchanged and in the same order, followed by exactly one new record;    *)
(* also when the file that was there could not be read or parsed.          *)
(***************************************************************************)
C11_AppendOnly ==
    \A p \in Sessions :
        /\ a_pc[p] # "raised"
        /\ (a_pc[p] = "done" /\ \A q \in Sessions \ {p} : a_pc[q] = "called")
              => store_file = ListFile(Append(prior.items, NewEntry(p)))

(***************************************************************************)
(* C12.  get_historical_context never raises and never returns an empty    *)
(* string: it returns the fixed sentinel when the store is missing,        *)
(* unreadable, empty or not a list or when the query has no terms, and a   *)
(* non-empty text otherwise.                                               *)
(***************************************************************************)
SentinelCase ==
    \/ store_file.kind # "list"
    \/ store_file.items = <<>>
    \/ extract_query_terms(h_query) = <<>>

C12_SentinelNeverRaises ==
    h_pc \in {"returned", "raised"}
        => /\ h_pc = "returned"
           /\ h_digest # <<>>
           /\ SentinelCase => h_digest = Sentinel


(***************************************************************************)
(* C13.  Every resume_with_guidance call whose replanning yields a step    *)
(* that is not HUMAN_IN_LOOP runs at least that step: the budget test at   *)
(* the head of its loop lets the first step through, however many steps    *)
(* the session executed before and however often it was resumed.           *)
(***************************************************************************)
C13_ResumeRunsItsFirstStep ==
    [][(pc = "returned" /\ pc' = "loop")
          => ~BudgetExhausted(phase', total_steps_executed')]_vars


(***************************************************************************)
(* C14.  No step is executed twice: in run() and in every resume, the step *)
(* handed to the executor is a newly created one (pending, never executed  *)
(* before), and no step of the session records more than one execution.    *)
(***************************************************************************)
C14_NoStepExecutedTwice ==
    /\ pc = "executing"
          => /\ StepOf(plan_versions, step).attempts = 0
             /\ StepOf(plan_versions, step).status = "pending"
    /\ \A id \in StepIds : StepAt(id).attempts <= 1

\* a resumed loop hands a step to the executor while the session already
\* holds completed steps and a step that failed in the executor
C14_Witness ==
    /\ phase = "resume"
    /\ pc = "executing"
    /\ \E id \in StepIds : StepAt(id).status = "completed" /\ StepAt(id).attempts = 1
    /\ \E id \in StepIds : StepAt(id).status = "awaiting_human" /\ StepAt(id).attempts = 1


\* run() has returned after its first step, a CODE step, ran in the executor
\* and was evaluated as achieving the local and the original goal
HappyPath ==
    /\ phase = "run"
    /\ pc = "returned"
    /\ Len(plan_versions) >= 1
    /\ plan_versions[1].steps[1].type = "CODE"
    /\ plan_versions[1].steps[1].status = "completed"
    /\ plan_versions[1].steps[1].perception = Perception(TRUE, TRUE)

ForbiddenInSolve ==
    {"nested_def", "nested_async_def", "class", "import", "import_from", "call_eval",
     "call_exec", "call_compile", "call___import__", "call_open", "call_system"}

(***************************************************************************)
(* C16.  Code that parses and whose solve routine, def or async def, holds *)
(* a nested function or class definition, an import or a call of eval,     *)
(* exec, compile, __import__, open or system is rejected with an itemized  *)
(* error list before execution: nothing of it is executed and no call      *)
(* reaches the dispatcher.                                                 *)
(***************************************************************************)
C16_ForbiddenConstructsRejected ==
    (/\ sb_pc \notin {"off", "called"}
     /\ sb_code.syntax_ok
     /\ sb_code.solve \in {"def", "async"}
     /\ sb_code.body \cap ForbiddenInSolve # {})
        => /\ sb_pc = "returned"
           /\ sb_result.errors # {}
           /\ ~compiled
           /\ forwarded = 0


(***************************************************************************)
(* C17.  Code that parses but does not define exactly one top-level        *)
(* routine named solve (no solve, or statements or definitions beside it)  *)
(* is rejected by the structural check before any of its statements is     *)
(* executed.                                                               *)
(***************************************************************************)
C17_OnlySolveAtTopLevel ==
    (/\ sb_pc \notin {"off", "called"}
     /\ sb_code.syntax_ok
     /\ (sb_code.solve = "none" \/ sb_code.top # "none"))
        => /\ sb_pc = "returned"
           /\ sb_result.errors # {}
           /\ ~compiled


\* the executed code has stopped making progress: a statement that runs in
\* the caller's own thread does not end, or the awaited solve is suspended
\* with nothing left that could wake it
DoesNotFinish ==
    \/ sb_pc = "hung"
    \/ /\ sb_pc = "solving"
       /\ calls_made = sb_code.behaviour.calls
       /\ sb_code.behaviour.end = "never"

(***************************************************************************)
(* C18.  Execution is bounded by the deadline for every accepted code:     *)
(* when the solve routine (def or async def) or the top-level statements   *)
(* do not finish, run_python_sandbox eventually returns the timeout error  *)
(* string.                                                                 *)
(***************************************************************************)
C18_DeadlineBoundsExecution ==
    DoesNotFinish ~> (sb_pc = "returned" /\ sb_result = TimeoutError)


(***************************************************************************)
(* C19.  Within one run_python_sandbox execution at most                   *)
(* MAX_TOOL_CALLS_PER_PLAN calls are forwarded to the dispatcher: the      *)
(* counter starts at 0, counts every attempt, and an attempt beyond the    *)
(* quota is not forwarded, also when the code catches the error and calls  *)
(* again.                                                                  *)
(***************************************************************************)
C19_QuotaBoundsForwardedCalls ==
    /\ sb_pc = "called" => call_count = 0 /\ forwarded = 0
    /\ call_count = calls_made
    /\ forwarded <= MAX_TOOL_CALLS_PER_PLAN
    /\ forwarded = IF call_count <= MAX_TOOL_CALLS_PER_PLAN
                   THEN call_count ELSE MAX_TOOL_CALLS_PER_PLAN

\* a solve that catches the quota error has made two attempts beyond the quota
C19_Witness ==
    /\ sb_code.behaviour.catches
    /\ call_count = MAX_TOOL_CALLS_PER_PLAN + 2
    /\ forwarded = MAX_TOOL_CALLS_PER_PLAN


\* the plan versions opened by a HUMAN_IN_LOOP directive of the decision
\* oracle: their first step was created with that kind and was never run
\* (a step that failed in the executor becomes HUMAN_IN_LOOP after a run)
DirectiveVersions ==
    { v \in 1..Len(plan_versions) :
        /\ plan_versions[v].steps[1].type = "HUMAN_IN_LOOP"
        /\ plan_versions[v].steps[1].attempts = 0 }

(***************************************************************************)
(* C20.  When a decision call made during run() returns HUMAN_IN_LOOP,     *)
(* run() returns at once, whatever budget remains: the directive's step,   *)
(* awaiting_human and carrying the oracle's reason and message, is the     *)
(* last step of the latest plan version.                                   *)
(***************************************************************************)
C20_DirectiveHonoredImmediately ==
    (phase = "run" /\ pc = "returned" /\ DirectiveVersions # {})
        => /\ DirectiveVersions = {Len(plan_versions)}
           /\ LastStep = LastVersion.steps[1]
           /\ LastStep.status = "awaiting_human"


\* the loop is about to hand its step to execute_step: the budget test passes
Dispatches(kind) ==
    /\ pc = "loop"
    /\ ~BudgetExhausted(phase, total_steps_executed)
    /\ StepOf(plan_versions, step).type = kind

(***************************************************************************)
(* C21.  CONCLUDE and clarification (NOP) steps end the current run.       *)
(* Executing a CONCLUDE step marks the session complete and the loop       *)
(* returns.  Executing a clarification step sets its status to             *)
(* clarification_needed and the loop returns, with the session not         *)
(* complete and the step's retry count and the session's executed-step     *)
(* counter unchanged.                                                      *)
(***************************************************************************)
C21_ConcludeAndClarificationEndRun ==
    [][/\ Dispatches("CONCLUDE")
          => /\ pc' = "returned"
             /\ complete'
             /\ StepOf(plan_versions', step').status = "completed"
       /\ Dispatches("NOP")
          => /\ pc' = "returned"
             /\ ~complete'
             /\ StepOf(plan_versions', step') =
                    [StepOf(plan_versions, step) EXCEPT !.status = "clarification_needed"]
             /\ StepOf(plan_versions', step').retries = StepOf(plan_versions, step).retries
             /\ total_steps_executed' = total_steps_executed]_vars

\* a clarification step ended a loop that had executed steps before it
C21_Witness ==
    /\ pc = "returned"
    /\ exit = "clarification"
    /\ LastStep.status = "clarification_needed"
    /\ total_steps_executed > 0
    /\ ~complete


(***************************************************************************)
(* C22.  After a step was executed and evaluated, a plan version is        *)
(* appended only when the step was unhelpful (local_goal_achieved and      *)
(* original_goal_achieved both false): advancing to the next plan line     *)
(* stays within the current plan version, and a step that achieved the     *)
(* original goal adds none.                                                *)
(***************************************************************************)
C22_NewVersionOnlyOnReplan ==
    [][(pc = "executing" /\ Len(plan_versions') > Len(plan_versions))
          => plan_versions'[step].steps[1].perception = Perception(FALSE, FALSE)]_vars


\* the statuses after which a step is immutable
SettledStatuses == {"completed", "awaiting_human", "clarification_needed"}

C24_HumanStepsCarryReason ==
    pc = "returned"
        => \A id \in StepIds :
              StepAt(id).type = "HUMAN_IN_LOOP"
                 => /\ StepAt(id).human_in_loop_reason # "None"
                    /\ StepAt(id).human_in_loop_message # "None"


(***************************************************************************)
(* C25.  The step kind in every record Decision.run returns is one the     *)
(* control loop dispatches on (CODE, CONCLUDE, NOP, HUMAN_IN_LOOP), for    *)
(* every oracle text, also well-formed JSON whose type field holds another *)
(* value or null.                                                          *)
(***************************************************************************)
C25_ReturnedKindIsDispatched ==
    d_pc = "returned" => d_result.out["type"] \in DispatchedKinds


\* the records of the store in the order of the ranking, with their scores
Ranking == SortByScore(ScoreItems(store_file.items, extract_query_terms(h_query), {}))

\* the call has scored and ranked the records of a store
Ranked ==
    /\ h_pc = "returned"
    /\ store_file.kind = "list"
    /\ store_file.items # <<>>
    /\ extract_query_terms(h_query) # <<>>

\* the record's score holds the diversity bonus: it is the score the record
\* gets when nothing was seen before it
HasDiversityBonus(scored) ==
    scored.score = calculate_historical_score(scored.item, extract_query_terms(h_query), {})

(***************************************************************************)
(* C26.  A record gets the diversity bonus unless it is a near-duplicate   *)
(* (similarity > 0.8) of a record that ranks higher than it; a             *)
(* near-duplicate that is only earlier in the store, without ranking       *)
(* higher, does not take the bonus away.                                   *)
(***************************************************************************)
C26_BonusUnlessHigherRankedDuplicate ==
    Ranked
        => LET ranking == Ranking
           IN  \A k \in 1..Len(ranking) :
                  HasDiversityBonus(ranking[k])
                     <=> ~\E j \in 1..(k - 1) :
                            NearDuplicate(ItemText(ranking[k].item), ItemText(ranking[j].item))


\* the bullet of the k-th record of a ranking
BulletAt(ranking, k) == FormatBullet(ranking[k].score, ranking[k].item)

\* the characters the first k bullets of a ranking take, each counted with
\* its line break (total_chars, line 183)
RECURSIVE AccumulatedLength(_, _)
AccumulatedLength(ranking, k) ==
    IF k = 0 THEN 0
    ELSE AccumulatedLength(ranking, k - 1) + TextLen(BulletAt(ranking, k)) + 1

\* the first k records of a ranking fit into the digest
PrefixFits(ranking, k) ==
    /\ k <= max_bullets
    /\ k <= Len(ranking)
    /\ AccumulatedLength(ranking, k) <= max_chars

\* the largest such k
DigestSize(ranking) ==
    CHOOSE k \in 0..Len(ranking) :
        /\ PrefixFits(ranking, k)
        /\ \A m \in (k + 1)..Len(ranking) : ~PrefixFits(ranking, m)

(***************************************************************************)
(* C27.  The digest is a prefix of the score ranking.  The ranking holds   *)
(* the records of the store sorted by total score, highest first; the      *)
(* digest's bullets are its first k records in that order, k being the     *)
(* largest count with k <= 10 whose accumulated bullet length (each bullet *)
(* counted with its line break) stays within 1,500 characters.  So no      *)
(* omitted record scores strictly higher than an included one, and a       *)
(* record that does not fit ends the digest even if a later, shorter one   *)
(* would fit.                                                              *)
(***************************************************************************)
C27_DigestIsRankingPrefix ==
    Ranked
        => LET ranking == Ranking
               k == DigestSize(ranking)
           IN  /\ Len(ranking) = Len(store_file.items)
               /\ \A i \in 1..Len(ranking) : \A j \in i..Len(ranking) :
                     ranking[i].score >= ranking[j].score
               /\ h_digest = IF k = 0 THEN Sentinel
                             ELSE Join([i \in 1..k |-> BulletAt(ranking, i)], Str(<<"\n">>))

\* the second record of the ranking does not fit and ends the digest, and
\* the third, a shorter one, would have fitted
C27_Witness ==
    /\ Ranked
    /\ LET ranking == Ranking
       IN  /\ Len(ranking) = 3
           /\ DigestSize(ranking) = 1
           /\ AccumulatedLength(ranking, 1) + TextLen(BulletAt(ranking, 3)) + 1 <= max_chars
           /\ ranking[2].score > ranking[3].score
           /\ h_digest = BulletAt(ranking, 1)


(***************************************************************************)
(* C28.  Over run() followed by any number of resume_with_guidance()       *)
(* calls on the same session, the cumulative counter of executed steps     *)
(* never exceeds MAX_STEPS + 3: it is never reset, and the resumed loop    *)
(* tests it against MAX_STEPS + 3 before every step.                       *)
(***************************************************************************)
C28_CumulativeCounterBounded ==
    /\ [](total_steps_executed <= MAX_STEPS + RESUME_EXTRA_STEPS)
    /\ [][total_steps_executed' >= total_steps_executed]_vars

\* a second resume found the counter at its bound and was stopped before
\* it executed the step it had planned
C28_Witness ==
    /\ resumes >= 2
    /\ pc = "returned"
    /\ exit = "budget"
    /\ total_steps_executed = MAX_STEPS + RESUME_EXTRA_STEPS
    /\ LastStep.type = "CODE"
    /\ LastStep.attempts = 0


\* the steps of the session for which the executor was called
ExecutedSteps ==
    { v \in 1..Len(plan_versions) : plan_versions[v].steps[1].attempts > 0 }

\* a step of the loop that creates plan versions creates one, holding one step
CreatesOneStepVersions ==
    Len(plan_versions') > Len(plan_versions)
        => /\ Len(plan_versions') = Len(plan_versions) + 1
           /\ Len(plan_versions'[Len(plan_versions')].steps) = 1

\* the resources one call of run() stays within
RunWithinBounds ==
    /\ [](total_steps_executed <= MAX_STEPS)
    /\ [](Cardinality(ExecutedSteps) <= MAX_STEPS)
    /\ [](Len(plan_versions) <= MAX_STEPS + 1)
    /\ [][CreatesOneStepVersions]_vars

(***************************************************************************)
(* C29.  run() always terminates when every oracle and executor call       *)
(* returns: whatever the oracle proposes and the evaluations say, it       *)
(* executes at most MAX_STEPS steps, creates at most MAX_STEPS + 1 plan    *)
(* versions, each created with exactly one step, and then returns.         *)
(***************************************************************************)
C29_RunReturnsWithinBounds ==
    /\ RunWithinBounds
    /\ (pc = "idle") ~> (pc = "returned")

\* the step the executor has just run is a CODE step whose evaluation
\* reports local_goal_achieved false
FailedLocally ==
    /\ pc = "executing"
    /\ LET s == plan_versions'[step].steps[1] IN
          /\ s.type = "CODE"
          /\ s.perception.evaluated
          /\ ~s.perception.local_goal_achieved

\* the last GLOBAL_PREVIOUS_FAILURE_STEPS entries of a list of failures
MostRecent(failures) ==
    IF Len(failures) > GLOBAL_PREVIOUS_FAILURE_STEPS
    THEN SubSeq(failures, Len(failures) - GLOBAL_PREVIOUS_FAILURE_STEPS + 1, Len(failures))
    ELSE failures

(***************************************************************************)
(* C30.  The failure memory handed to the evaluation oracle holds at most  *)
(* GLOBAL_PREVIOUS_FAILURE_STEPS entries after every executed step.  An    *)
(* entry is added only when the evaluation of a CODE step reports          *)
(* local_goal_achieved false, and every such step is added; when a fourth  *)
(* entry is added the oldest is dropped, so the memory holds the most      *)
(* recent failures, oldest first.  A loop starts with an empty memory.     *)
(***************************************************************************)
C30_FailureMemoryKeepsMostRecent ==
    /\ [](Len(session_memory) <= GLOBAL_PREVIOUS_FAILURE_STEPS)
    /\ [](\A i \in 1..(Len(session_memory) - 1) :
              session_memory[i].query < session_memory[i + 1].query)
    /\ [][session_memory' # session_memory
            => \/ pc \in {"idle", "returned"} /\ session_memory' = <<>>
               \/ /\ FailedLocally
                  /\ session_memory' =
                        MostRecent(Append(session_memory, [query |-> step]))]_vars
    /\ [][FailedLocally
            => /\ session_memory' # <<>>
               /\ session_memory'[Len(session_memory')].query = step]_vars

\* a resumed loop, started on a session whose run() paused before its first
\* step, has seen four steps fail: the first of them (plan version 2) has
\* been dropped and the memory holds the three that followed
C30_Witness ==
    /\ phase = "resume"
    /\ plan_versions[1].steps[1].type = "HUMAN_IN_LOOP"
    /\ Len(session_memory) = GLOBAL_PREVIOUS_FAILURE_STEPS
    /\ session_memory[1].query = 3
    /\ session_memory[GLOBAL_PREVIOUS_FAILURE_STEPS].query = 5
    /\ plan_versions[2].steps[1].perception.evaluated
    /\ ~plan_versions[2].steps[1].perception.local_goal_achieved
=============================================================================
